---- MODULE Spec2Model ----
(***************************************************************************)
(* A model of src/schwab_options_data.py: the per-ticker pipeline          *)
(* extract -> transform -> load (SchwabOptions.etl) and the driver that    *)
(* fans it out over the ticker list with asyncio.gather (main), run by     *)
(* asyncio.run on one event-loop thread.                                   *)
(*                                                                         *)
(* One thread runs the event loop.  A task keeps the thread from the       *)
(* moment the loop resumes it until it suspends or ends; `running` names   *)
(* the task holding the thread.  The only await that suspends is the       *)
(* chain request (line 56): transform and load are coroutines without an   *)
(* inner suspension, and time.sleep blocks the thread.                     *)
(***************************************************************************)
EXTENDS Integers, Sequences, FiniteSets, TLC

\* ------------------------------------------------------------------ bounds

\* Longest contract list stored under one strike of a generated response.
MaxList == 2

\* The wall clock, in ms: it moves on at most MaxTicks times, ClockStepMs each.
MaxTicks == 2
ClockStepMs == 500

\* Longest ticker symbol handed to an etl run on its own.
MaxTickerLen == 3

\* Most rows of a table handed to load on its own.
MaxRows == 201

\* Keys a generated response may use, in the order the JSON lists them (a
\* Python dict iterates in insertion order).
ExpiryOrder == <<"e1", "e2">>
StrikeOrder == <<"s1", "s2">>

\* -------------------------------------------------------- program constants

StatusTooManyRequests == 429
RateLimitSleepMs == 5000
PostPullSleepMs == 250
FailureSleepMs == 1000
chunksize == 100
\* Line 136: str.slice(-15).
KeySuffixLen == 15

\* main, line 168: the ticker list, each symbol as its characters.
tickers == << <<"$", "S", "P", "X">>, <<"S", "P", "Y">>, <<"Q", "Q", "Q">> >>

\* One task per ticker (line 173), named by its place in the list.
Tasks == 1..Len(tickers)

NoTask == 0

\* transform, lines 114-116.
endColumns ==
    {"putCall", "symbol", "description", "bid", "ask", "last", "mark",
     "bidSize", "askSize", "bidAskSize", "lastSize", "highPrice", "lowPrice",
     "openPrice", "closePrice", "totalVolume", "quoteTimeInLong", "netChange",
     "volatility", "delta", "gamma", "theta", "vega", "rho", "openInterest",
     "theoreticalOptionValue", "theoreticalVolatility", "strikePrice",
     "expirationDate", "daysToExpiration", "expirationType", "lastTradingDay",
     "percentChange", "intrinsicValue", "extrinsicValue", "optionRoot",
     "high52Week", "low52Week", "inTheMoney"}

contract_types == <<"callExpDateMap", "putExpDateMap">>

\* ------------------------------------------------------------ Python values

\* A value or None, and a result or a raised exception.
None == [none |-> TRUE, v |-> <<>>]
Some(x) == [none |-> FALSE, v |-> x]

NoExc == "none"
Ok(x) == [exc |-> NoExc, v |-> x]
Raise(e) == [exc |-> e, v |-> <<>>]

\* The exception classes that occur.  CancelledError derives from
\* BaseException, the others from Exception.
ExceptionClasses ==
    {"TransportError", "JSONDecodeError", "KeyError", "IndexError",
     "ColumnNotFoundError", "OperationalError"}

\* ---------------------------------------------------------------- responses

\* The place of key k in a key order.
IndexIn(order, k) == CHOOSE i \in DOMAIN order : order[i] = k

\* The symbol of a contract, as its 21 characters: the root padded to 6 (the
\* contracts listed under one strike differ in their root), the expiration
\* date (6), C or P, and the strike price (8).
SymbolOf(side, expiry, strike, i) ==
    <<"R", "T", ToString(i), " ", " ", " ">>
        \o <<"2", "4", "0", "6", "2", ToString(IndexIn(ExpiryOrder, expiry))>>
        \o <<IF side = "CALL" THEN "C" ELSE "P">>
        \o <<"0", "5", "0", "0", "0", "0", "0", ToString(IndexIn(StrikeOrder, strike))>>

\* One contract entry of the chain JSON: a dict, of which the model keeps the
\* side, the symbol and the set of keys it carries.
Entry(side, expiry, strike, i, cols) ==
    [putCall |-> side, symbol |-> SymbolOf(side, expiry, strike, i), cols |-> cols]

SideOf(contract_type) == IF contract_type = "callExpDateMap" THEN "CALL" ELSE "PUT"

\* The keys of dict d, in JSON order.
Keys(d, order) == SelectSeq(order, LAMBDA k : k \in DOMAIN d)

\* A map expiry -> strike -> list of entries whose list lengths are given by
\* shape (expiry -> strike -> length).
MapOfShape(contract_type, shape, cols) ==
    [e \in DOMAIN shape |->
        [s \in DOMAIN shape[e] |->
            [i \in 1..shape[e][s] |-> Entry(SideOf(contract_type), e, s, i, cols)]]]

Range(seq) == {seq[i] : i \in DOMAIN seq}

PartialFns(K, V) == UNION {[D -> V] : D \in SUBSET K}

\* The shapes of the generated maps: any subset of the expiries, under each
\* any subset of the strikes, under each a list of 1..MaxList entries.
Shapes == PartialFns(Range(ExpiryOrder), PartialFns(Range(StrikeOrder), 1..MaxList))

\* A response of get_option_chain: the exception the await raises (or none),
\* the status code, whether .json() parses, and the parsed body.  The code
\* tells only 429 from the other status codes; 200 stands for the others.
Response(exc, status, parses, body) ==
    [exc |-> exc, status |-> status, parses |-> parses, body |-> body]

BodyOf(callShape, putShape, cols) ==
    [callExpDateMap |-> MapOfShape("callExpDateMap", callShape, cols),
     putExpDateMap |-> MapOfShape("putExpDateMap", putShape, cols)]

GeneratedResponses ==
    {Response(NoExc, 200, TRUE, BodyOf(c, p, endColumns)) : c \in Shapes, p \in Shapes}

OneStrike == [e1 |-> [s1 |-> 1]]
TwoStrikes == [e1 |-> [s1 |-> 2, s2 |-> 1]]

\* Scenario A: one call and one put at one expiration and strike.
RespScenarioA == Response(NoExc, 200, TRUE, BodyOf(OneStrike, OneStrike, endColumns))
\* A chain with no expirations on either side.
RespEmptyChain == Response(NoExc, 200, TRUE, BodyOf(<<>>, <<>>, endColumns))
\* Every record lacks delta.
RespNoDelta ==
    Response(NoExc, 200, TRUE, BodyOf(OneStrike, OneStrike, endColumns \ {"delta"}))
\* The put record lacks delta, the call record before it carries it.
RespOneLacksDelta ==
    Response(NoExc, 200, TRUE,
             [callExpDateMap |-> MapOfShape("callExpDateMap", OneStrike, endColumns),
              putExpDateMap |->
                  MapOfShape("putExpDateMap", OneStrike, endColumns \ {"delta"})])
\* The rate-limit answer.
RespRateLimited == Response(NoExc, StatusTooManyRequests, TRUE, <<>>)
\* The request itself fails.
RespNetworkError == Response("TransportError", 200, FALSE, <<>>)
\* The body is not JSON.
RespNotJson == Response(NoExc, 200, FALSE, <<>>)
\* The body lacks putExpDateMap.
RespNoPutMap ==
    Response(NoExc, 200, TRUE,
             [callExpDateMap |-> MapOfShape("callExpDateMap", TwoStrikes, endColumns)])
\* A strike whose contract list is empty, after strikes that have one.
RespEmptyStrike ==
    Response(NoExc, 200, TRUE,
             [callExpDateMap |-> MapOfShape("callExpDateMap", TwoStrikes, endColumns),
              putExpDateMap |-> [e1 |-> [s1 |-> <<>>]]])

CycleResponses ==
    {RespScenarioA, RespEmptyChain, RespNoDelta, RespRateLimited,
     RespNetworkError, RespNotJson, RespNoPutMap, RespEmptyStrike}

EtlResponses == CycleResponses \cup {RespOneLacksDelta}

\* ------------------------------------------------------------------ extract

\* strikesLoop taking every entry stored under a strike, not the first only.
RECURSIVE strikesLoopWholeList(_, _, _)
strikesLoopWholeList(byStrike, ks, contracts) ==
    IF ks = <<>> THEN Ok(contracts)
    ELSE IF Len(byStrike[Head(ks)]) = 0 THEN Raise("IndexError")
    ELSE strikesLoopWholeList(byStrike, Tail(ks), contracts \o byStrike[Head(ks)])

\* Lines 82-85: the strikes of one expiration.
RECURSIVE strikesLoop(_, _, _)
strikesLoop(byStrike, ks, contracts) ==
    IF ks = <<>> THEN Ok(contracts)
    ELSE IF Len(byStrike[Head(ks)]) = 0 THEN Raise("IndexError")
    ELSE strikesLoop(byStrike, Tail(ks), Append(contracts, byStrike[Head(ks)][1]))

\* Lines 79-85: the expirations of one map.
RECURSIVE expiryLoop(_, _, _)
expiryLoop(contract, es, contracts) ==
    IF es = <<>> THEN Ok(contracts)
    ELSE LET r == strikesLoop(contract[Head(es)], Keys(contract[Head(es)], StrikeOrder),
                              contracts)
         IN  IF r.exc # NoExc THEN r ELSE expiryLoop(contract, Tail(es), r.v)

\* typeLoop passing over a map the body lacks, and over a failure inside a
\* map, with what it has collected.
RECURSIVE typeLoopSkipsMissing(_, _, _)
typeLoopSkipsMissing(rawOptionsData, types, contracts) ==
    IF types = <<>> THEN Ok(contracts)
    ELSE IF Head(types) \notin DOMAIN rawOptionsData
         THEN typeLoopSkipsMissing(rawOptionsData, Tail(types), contracts)
    ELSE LET contract == rawOptionsData[Head(types)]
             r == expiryLoop(contract, Keys(contract, ExpiryOrder), contracts)
         IN  typeLoopSkipsMissing(rawOptionsData, Tail(types),
                                  IF r.exc # NoExc THEN contracts ELSE r.v)

\* Lines 73-85: both maps.
RECURSIVE typeLoop(_, _, _)
typeLoop(rawOptionsData, types, contracts) ==
    IF types = <<>> THEN Ok(contracts)
    ELSE IF Head(types) \notin DOMAIN rawOptionsData THEN Raise("KeyError")
    ELSE LET contract == rawOptionsData[Head(types)]
             r == expiryLoop(contract, Keys(contract, ExpiryOrder), contracts)
         IN  IF r.exc # NoExc THEN r ELSE typeLoop(rawOptionsData, Tail(types), r.v)

\* tryBody without the status check of line 60: a 429 answer is parsed like
\* any other.
tryBodyNoStatusCheck(thrown, response) ==
    IF thrown # NoExc THEN [exc |-> thrown, sleep |-> 0, ret |-> None]
    ELSE IF ~response.parses THEN [exc |-> "JSONDecodeError", sleep |-> 0, ret |-> None]
    ELSE LET r == typeLoop(response.body, contract_types, <<>>)
         IN  IF r.exc # NoExc THEN [exc |-> r.exc, sleep |-> 0, ret |-> None]
             ELSE [exc |-> NoExc, sleep |-> PostPullSleepMs, ret |-> Some(r.v)]

\* Lines 56-91, the body of the try from the await's outcome on: what it
\* raises, or the sleep it makes and the value it goes on to return.
tryBody(thrown, response) ==
    IF thrown # NoExc THEN [exc |-> thrown, sleep |-> 0, ret |-> None]
    ELSE IF response.status = StatusTooManyRequests
         THEN [exc |-> NoExc, sleep |-> RateLimitSleepMs, ret |-> None]
    ELSE IF ~response.parses THEN [exc |-> "JSONDecodeError", sleep |-> 0, ret |-> None]
    ELSE LET r == typeLoop(response.body, contract_types, <<>>)
         IN  IF r.exc # NoExc THEN [exc |-> r.exc, sleep |-> 0, ret |-> None]
             ELSE [exc |-> NoExc, sleep |-> PostPullSleepMs, ret |-> Some(r.v)]

\* A handler that catches the request's own errors only.
CatchesTransportOnly(e) == e = "TransportError"

\* Line 94: `except Exception`.
Catches(e) == e \in ExceptionClasses

\* The try with the sleep of line 98 in a finally clause: made on every path.
extractOutcomeSleepInFinally(thrown, response) ==
    LET r == tryBody(thrown, response)
    IN  IF r.exc # NoExc /\ Catches(r.exc)
        THEN [exc |-> NoExc, sleep |-> FailureSleepMs, ret |-> None]
        ELSE [r EXCEPT !.sleep = @ + FailureSleepMs]

\* Lines 52-98: the try with its handler.
extractOutcome(thrown, response) ==
    LET r == tryBody(thrown, response)
    IN  IF r.exc # NoExc /\ Catches(r.exc)
        THEN [exc |-> NoExc, sleep |-> FailureSleepMs, ret |-> None]
        ELSE r

\* ---------------------------------------------------------------- transform

\* ticker.lstrip of one '$': the leading marker only.
stripTickerLeadingOnly(ticker) ==
    IF ticker # <<>> /\ Head(ticker) = "$" THEN Tail(ticker) ELSE ticker

\* Line 108: ticker.replace('$', '').
stripTicker(ticker) == SelectSeq(ticker, LAMBDA c : c # "$")

\* Line 105: int(time.time()), the clock in whole seconds.
epochSeconds(clockMs) == clockMs \div 1000

\* Line 136: str(epoch), the decimal digits of a natural number.
RECURSIVE str(_)
str(n) ==
    LET digit == <<"0", "1", "2", "3", "4", "5", "6", "7", "8", "9">>[(n % 10) + 1]
    IN  IF n < 10 THEN <<digit>> ELSE str(n \div 10) \o <<digit>>

\* Line 136: str.slice(-n), the last n characters (all of a shorter string).
strSlice(chars, n) ==
    IF Len(chars) <= n THEN chars ELSE SubSeq(chars, Len(chars) - n + 1, Len(chars))

\* A frame made with the schema of endColumns, whatever the records are.
frameColumnsFixedSchema(contracts) == endColumns

\* Line 111: the columns of pl.DataFrame(data=contracts): the keys of the
\* records, a key that some records lack being null in their rows.  None and
\* the empty list give a frame without columns.
frameColumns(contracts) ==
    IF contracts.none THEN {}
    ELSE UNION {contracts.v[i].cols : i \in DOMAIN contracts.v}

\* rowOf with the whole symbol in the key (no str.slice).
rowOfWholeSymbol(ticker, record, epoch, now) ==
    [ticker |-> ticker,
     symbol |-> record.symbol,
     putCall |-> record.putCall,
     nulls |-> endColumns \ record.cols,
     theDatetime |-> now,
     theKey |-> ticker \o record.symbol \o <<".">> \o str(epoch)]

\* Lines 131-136: the row of one record: the selected columns (of which the
\* model keeps the symbol, the side and which ones are null) and the three
\* derived ones.
rowOf(ticker, record, epoch, now) ==
    [ticker |-> ticker,
     symbol |-> record.symbol,
     putCall |-> record.putCall,
     nulls |-> endColumns \ record.cols,
     theDatetime |-> now,
     theKey |-> ticker \o strSlice(record.symbol, KeySuffixLen) \o <<".">> \o str(epoch)]

\* Lines 108-143, from the frame on: select raises when a column of
\* endColumns is not in the frame; else one row per record.  epoch is the
\* value of line 105, now the clock as line 133 reads it.
transform(ticker, contracts, epoch, now) ==
    IF ~(endColumns \subseteq frameColumns(contracts))
    THEN Raise("ColumnNotFoundError")
    ELSE Ok([i \in DOMAIN contracts.v |->
                rowOf(stripTicker(ticker), contracts.v[i], epoch, now)])

\* --------------------------------------------------------------------- load

\* to_sql without chunksize: the rows in one slice.
ChunksWhole(rows, n) == IF rows = <<>> THEN <<>> ELSE <<rows>>

\* Line 154: to_sql(..., chunksize=100) writes consecutive slices of at most
\* n rows.
RECURSIVE Chunks(_, _)
Chunks(rows, n) ==
    IF rows = <<>> THEN <<>>
    ELSE IF Len(rows) <= n THEN <<rows>>
    ELSE <<SubSeq(rows, 1, n)>> \o Chunks(SubSeq(rows, n + 1, Len(rows)), n)

\* The rows in a sequence of slices.
RECURSIVE RowsIn(_)
RowsIn(slices) == IF slices = <<>> THEN 0 ELSE Len(Head(slices)) + RowsIn(Tail(slices))

\* to_sql with if_exists='replace': the slice takes the place of the rows held.
replaceRows(existing, rows) == rows

\* Line 154, if_exists='append': a slice goes after the rows the table holds.
appendRows(existing, rows) == existing \o rows

\* ---------------------------------------------------------------------- etl

\* etl handing what extract returned straight to load.
etlNextSkipsTransform(stage) ==
    CASE stage = "extract" -> "load"
      [] stage = "transform" -> "load"
      [] stage = "load" -> "done"

\* Lines 162-164: the stage etl goes to when a stage returns.
etlNext(stage) ==
    CASE stage = "extract" -> "transform"
      [] stage = "transform" -> "load"
      [] stage = "load" -> "done"

\* -------------------------------------------------------------------- state

VARIABLES
    mainpc,     \* main: "start", "gather" (awaiting line 175), "returned", "raised"
    loop,       \* asyncio.run's loop: "run", "shutdown" (cancelling what is left), "closed"
    running,    \* the task holding the event-loop thread, or NoTask
    pc,         \* per task: where its etl coroutine is
    fate,       \* per task: what the API answers, whether the database refuses a
                \* slice, which one, and whether the table's engine is transactional
    net,        \* per task: the chain request, "idle", "inflight" or "arrived"
    cancelReq,  \* per task: Task.cancel() was called on it
    requests,   \* per task: chain requests issued
    slept,      \* per task: the time.sleep calls made, in ms
    pending,    \* per task: the value extract is about to return while it sleeps
    extracted,  \* per task: extractedData (line 162)
    table,      \* per task: transformedData (line 163)
    chunks,     \* per task: the slices to_sql has still to write
    err,        \* per task: the exception its etl run ended with
    log,        \* per task: the calls and returns made so far
    db,         \* the destination table: its rows, in insertion order
    clock,      \* the wall clock, in ms
    epoch,      \* per task: transform's local epoch (line 105)
    ticker      \* per task: the ticker argument of its etl run

vars == <<mainpc, loop, running, pc, fate, net, cancelReq, requests, slept, pending,
          extracted, table, chunks, err, log, db, clock, epoch, ticker>>

\* What happens to a task: the API's answer; whether the database refuses
\* the failAt-th slice of its to_sql; whether the table's storage engine is
\* transactional (InnoDB) or not (MyISAM).
Fate(response, sinkFails, failAt, atomic) ==
    [response |-> response, sinkFails |-> sinkFails, failAt |-> failAt, atomic |-> atomic]

Fates ==
    {Fate(r, FALSE, 1, TRUE) : r \in CycleResponses}
        \cup {Fate(RespScenarioA, TRUE, 1, TRUE)}

Terminal == {"done", "failed", "cancelled"}

InitTasks(f) ==
    /\ loop = "run"
    /\ running = NoTask
    /\ fate = f
    /\ net = [t \in Tasks |-> "idle"]
    /\ cancelReq = [t \in Tasks |-> FALSE]
    /\ requests = [t \in Tasks |-> 0]
    /\ slept = [t \in Tasks |-> <<>>]
    /\ pending = [t \in Tasks |-> None]
    /\ extracted = [t \in Tasks |-> None]
    /\ table = [t \in Tasks |-> None]
    /\ chunks = [t \in Tasks |-> <<>>]
    /\ err = [t \in Tasks |-> NoExc]
    /\ log = [t \in Tasks |-> <<>>]
    /\ clock = 0
    /\ epoch = [t \in Tasks |-> 0]

\* asyncio.run(main()) is about to start main (line 179).
Init ==
    /\ mainpc = "start"
    /\ pc = [t \in Tasks |-> "none"]
    /\ ticker = tickers
    /\ db = <<>>
    /\ \E f \in [Tasks -> Fates] : InitTasks(f)

\* Lines 168-175: main builds one etl coroutine per ticker, hands them to
\* gather, which makes a task of each, and suspends on the gathered future.
MainGather ==
    /\ mainpc = "start"
    /\ mainpc' = "gather"
    /\ pc' = [t \in Tasks |-> "created"]
    /\ UNCHANGED <<clock, epoch, ticker, loop, running, fate, net, cancelReq, requests, slept, pending,
                   extracted, table, chunks, err, log, db>>

\* Lines 46-57: extract is called and issues the chain request; the task
\* suspends on it.
ExtractCall(t) ==
    /\ pc[t] = "created"
    /\ running = NoTask
    /\ pc' = [pc EXCEPT ![t] = "request"]
    /\ requests' = [requests EXCEPT ![t] = @ + 1]
    /\ net' = [net EXCEPT ![t] = "inflight"]
    /\ log' = [log EXCEPT ![t] = @ \o <<"extract.call", "request">>]
    /\ UNCHANGED <<clock, epoch, ticker, mainpc, loop, running, fate, cancelReq, slept, pending, extracted,
                   table, chunks, err, db>>

\* Line 160-162: the loop starts the tasks in the order gather made them; each
\* runs to its first suspension.
EtlStart(t) ==
    /\ mainpc = "gather"
    /\ \A u \in Tasks : u < t => pc[u] # "created"
    /\ ExtractCall(t)

\* The API answers (or the request fails): the task becomes ready.
Respond(t) ==
    /\ net[t] = "inflight"
    /\ net' = [net EXCEPT ![t] = "arrived"]
    /\ UNCHANGED <<clock, epoch, ticker, mainpc, loop, running, pc, fate, cancelReq, requests, slept, pending,
                   extracted, table, chunks, err, log, db>>

\* A task suspended on its request that the loop can resume.
Ready(t) == pc[t] = "request" /\ (net[t] = "arrived" \/ cancelReq[t])

\* Lines 56-98: the loop resumes the task at the await, with the response or
\* with the exception thrown into it; the task runs up to its time.sleep, or
\* out of etl when the exception is not caught.
Resume(t) ==
    /\ loop # "closed"
    /\ running = NoTask
    /\ Ready(t)
    /\ \A u \in Tasks : pc[u] # "created"
    /\ LET thrown == IF cancelReq[t] THEN "CancelledError" ELSE fate[t].response.exc
           o == extractOutcome(thrown, fate[t].response)
       IN  IF o.exc # NoExc
           THEN /\ pc' = [pc EXCEPT ![t] = IF o.exc = "CancelledError" THEN "cancelled"
                                            ELSE "failed"]
                /\ err' = [err EXCEPT ![t] = o.exc]
                /\ log' = [log EXCEPT ![t] = @ \o <<"extract.raise">>]
                /\ UNCHANGED <<running, slept, pending>>
           ELSE /\ pc' = [pc EXCEPT ![t] = "sleeping"]
                /\ running' = t
                /\ slept' = [slept EXCEPT ![t] = Append(@, o.sleep)]
                /\ pending' = [pending EXCEPT ![t] = o.ret]
                /\ log' = [log EXCEPT ![t] = @ \o <<"sleep">>]
                /\ UNCHANGED err
    /\ UNCHANGED <<clock, epoch, ticker, mainpc, loop, fate, net, cancelReq, requests, extracted, table,
                   chunks, db>>

\* Lines 64, 89-91, 98: time.sleep ends and extract returns to etl.
Wake(t) ==
    /\ pc[t] = "sleeping"
    /\ running = t
    /\ extracted' = [extracted EXCEPT ![t] = pending[t]]
    /\ pc' = [pc EXCEPT ![t] = etlNext("extract")]
    /\ log' = [log EXCEPT ![t] = @ \o <<"extract.return">>]
    /\ UNCHANGED <<clock, epoch, ticker, mainpc, loop, running, fate, net, cancelReq, requests, slept,
                   pending, table, chunks, err, db>>

\* The wall clock moves on, whatever the tasks do.  Only transform reads it.
Tick ==
    /\ clock < MaxTicks * ClockStepMs
    /\ clock' = clock + ClockStepMs
    /\ UNCHANGED <<mainpc, loop, running, pc, fate, net, cancelReq, requests, slept,
                   pending, extracted, table, chunks, err, log, db, epoch, ticker>>

\* extractedData kept in one place for all runs: the first run's.
extractedDataOfFirst(t) == extracted[1]

\* Lines 162-163: the local extractedData that etl hands to transform.
extractedDataOf(t) == extracted[t]

\* Lines 163, 103-108: etl calls transform on what extract returned;
\* transform reads the clock for the epoch.
TransformBegin(t) ==
    /\ pc[t] = "transform"
    /\ running = t
    /\ pc' = [pc EXCEPT ![t] = "transforming"]
    /\ epoch' = [epoch EXCEPT ![t] = epochSeconds(clock)]
    /\ log' = [log EXCEPT ![t] = @ \o <<"transform.call", "clock.read">>]
    /\ UNCHANGED <<mainpc, loop, running, fate, net, cancelReq, requests, slept,
                   pending, extracted, table, chunks, err, db, clock, ticker>>

\* Lines 111-143: transform builds the frame and selects the columns (which
\* may raise, out of etl), reads the clock again for theDatetime and returns
\* the table.
TransformEnd(t) ==
    /\ pc[t] = "transforming"
    /\ running = t
    /\ LET r == transform(ticker[t], extractedDataOf(t), epoch[t], clock)
       IN  IF r.exc # NoExc
           THEN /\ pc' = [pc EXCEPT ![t] = "failed"]
                /\ err' = [err EXCEPT ![t] = r.exc]
                /\ running' = NoTask
                /\ log' = [log EXCEPT ![t] = @ \o <<"transform.raise">>]
                /\ UNCHANGED table
           ELSE /\ pc' = [pc EXCEPT ![t] = etlNext("transform")]
                /\ table' = [table EXCEPT ![t] = Some(r.v)]
                /\ log' = [log EXCEPT ![t] = @ \o <<"clock.read", "transform.return">>]
                /\ UNCHANGED <<err, running>>
    /\ UNCHANGED <<mainpc, loop, fate, net, cancelReq, requests, slept, pending,
                   extracted, chunks, db, clock, epoch, ticker>>

\* Lines 147-154: etl calls load, which makes the engine and starts to_sql.
LoadBegin(t) ==
    /\ pc[t] = "load"
    /\ running = t
    /\ pc' = [pc EXCEPT ![t] = "writing"]
    /\ chunks' = [chunks EXCEPT ![t] = Chunks(table[t].v, chunksize)]
    /\ log' = [log EXCEPT ![t] = @ \o <<"load.call">>]
    /\ UNCHANGED <<clock, epoch, ticker, mainpc, loop, running, fate, net, cancelReq, requests, slept,
                   pending, extracted, table, err, db>>

\* Line 154: to_sql writes the next slice, or the database refuses it and
\* the error leaves load and etl.  to_sql issues every slice inside one
\* transaction: when a slice fails, a transactional table loses the slices
\* of this call written before it, another table keeps them.  load has no
\* suspension, so the rows of this call are the last rows of the table.
LoadChunk(t) ==
    /\ pc[t] = "writing"
    /\ running = t
    /\ chunks[t] # <<>>
    /\ LET k == Len(Chunks(table[t].v, chunksize)) - Len(chunks[t]) + 1
           written == Len(table[t].v) - RowsIn(chunks[t])
       IN  IF fate[t].sinkFails /\ fate[t].failAt = k
           THEN /\ pc' = [pc EXCEPT ![t] = "failed"]
                /\ err' = [err EXCEPT ![t] = "OperationalError"]
                /\ running' = NoTask
                /\ log' = [log EXCEPT ![t] = @ \o <<"load.raise">>]
                /\ db' = IF fate[t].atomic THEN SubSeq(db, 1, Len(db) - written)
                         ELSE db
                /\ UNCHANGED chunks
           ELSE /\ db' = appendRows(db, Head(chunks[t]))
                /\ chunks' = [chunks EXCEPT ![t] = Tail(@)]
                /\ UNCHANGED <<pc, err, running, log>>
    /\ UNCHANGED <<clock, epoch, ticker, mainpc, loop, fate, net, cancelReq, requests, slept, pending,
                   extracted, table>>

\* Lines 154-156, 164: to_sql is through; load and etl return.
LoadEnd(t) ==
    /\ pc[t] = "writing"
    /\ running = t
    /\ chunks[t] = <<>>
    /\ pc' = [pc EXCEPT ![t] = etlNext("load")]
    /\ running' = NoTask
    /\ log' = [log EXCEPT ![t] = @ \o <<"load.return">>]
    /\ UNCHANGED <<clock, epoch, ticker, mainpc, loop, fate, net, cancelReq, requests, slept, pending,
                   extracted, table, chunks, err, db>>

\* Line 175: every task returned, gather has its result and main returns.
MainReturn ==
    /\ mainpc = "gather"
    /\ running = NoTask
    /\ \A t \in Tasks : pc[t] = "done"
    /\ mainpc' = "returned"
    /\ UNCHANGED <<clock, epoch, ticker, loop, running, pc, fate, net, cancelReq, requests, slept, pending,
                   extracted, table, chunks, err, log, db>>

\* Line 175: gather (return_exceptions left False) passes the first
\* exception of a task to main, which raises it; the other tasks are left as
\* they are.
MainRaise ==
    /\ mainpc = "gather"
    /\ running = NoTask
    /\ \E t \in Tasks : pc[t] = "failed"
    /\ mainpc' = "raised"
    /\ UNCHANGED <<clock, epoch, ticker, loop, running, pc, fate, net, cancelReq, requests, slept, pending,
                   extracted, table, chunks, err, log, db>>

\* Line 179: main is over; asyncio.run cancels every task still pending.
Shutdown ==
    /\ mainpc \in {"returned", "raised"}
    /\ loop = "run"
    /\ running = NoTask
    /\ loop' = "shutdown"
    /\ cancelReq' = [t \in Tasks |-> pc[t] \notin Terminal]
    /\ UNCHANGED <<clock, epoch, ticker, mainpc, running, pc, fate, net, requests, slept, pending, extracted,
                   table, chunks, err, log, db>>

\* Line 179: the cancelled tasks have ended; asyncio.run closes the loop.
LoopClose ==
    /\ loop = "shutdown"
    /\ running = NoTask
    /\ \A t \in Tasks : pc[t] \in Terminal
    /\ loop' = "closed"
    /\ UNCHANGED <<clock, epoch, ticker, mainpc, running, pc, fate, net, cancelReq, requests, slept, pending,
                   extracted, table, chunks, err, log, db>>

Next ==
    \/ MainGather
    \/ \E t \in Tasks : EtlStart(t)
    \/ \E t \in Tasks : Respond(t)
    \/ \E t \in Tasks : Resume(t)
    \/ \E t \in Tasks : Wake(t)
    \/ \E t \in Tasks : TransformBegin(t)
    \/ \E t \in Tasks : TransformEnd(t)
    \/ \E t \in Tasks : LoadBegin(t)
    \/ \E t \in Tasks : LoadChunk(t)
    \/ \E t \in Tasks : LoadEnd(t)
    \/ MainReturn
    \/ MainRaise
    \/ Shutdown
    \/ LoopClose

Spec == Init /\ [][Next]_vars

\* extract awaited on its own, for the first ticker, on any answer the API
\* may give.
InitExtract ==
    /\ mainpc = "direct"
    /\ pc = [u \in Tasks |-> IF u = 1 THEN "created" ELSE "none"]
    /\ ticker = tickers
    /\ db = <<>>
    /\ \E r \in GeneratedResponses \cup CycleResponses :
         InitTasks([u \in Tasks |->
                       Fate(IF u = 1 THEN r ELSE RespRateLimited, FALSE, 1, TRUE)])

NextExtract ==
    \/ \E t \in Tasks : ExtractCall(t)
    \/ \E t \in Tasks : Respond(t)
    \/ \E t \in Tasks : Resume(t)
    \/ \E t \in Tasks : Wake(t)

SpecExtract == InitExtract /\ [][NextExtract]_vars

\* The characters of the ticker symbols given to an etl run on its own.
TickerChars == {"$", "A", "B"}

TickerInputs ==
    UNION {[1..n -> TickerChars] : n \in 1..MaxTickerLen} \cup Range(tickers)

EtlFates ==
    {Fate(r, FALSE, 1, TRUE) : r \in EtlResponses}
        \cup {Fate(RespScenarioA, TRUE, 1, a) : a \in BOOLEAN}

\* Lines 160-164: one etl run awaited on its own, for any ticker symbol, while
\* the clock moves.
InitEtl ==
    /\ mainpc = "direct"
    /\ pc = [u \in Tasks |-> IF u = 1 THEN "created" ELSE "none"]
    /\ db = <<>>
    /\ \E k \in TickerInputs : ticker = [tickers EXCEPT ![1] = k]
    /\ \E f \in EtlFates :
         InitTasks([u \in Tasks |->
                       IF u = 1 THEN f ELSE Fate(RespRateLimited, FALSE, 1, TRUE)])

NextEtl ==
    \/ \E t \in Tasks : ExtractCall(t)
    \/ \E t \in Tasks : Respond(t)
    \/ \E t \in Tasks : Resume(t)
    \/ \E t \in Tasks : Wake(t)
    \/ \E t \in Tasks : TransformBegin(t)
    \/ \E t \in Tasks : TransformEnd(t)
    \/ \E t \in Tasks : LoadBegin(t)
    \/ \E t \in Tasks : LoadChunk(t)
    \/ \E t \in Tasks : LoadEnd(t)
    \/ Tick

SpecEtl == InitEtl /\ [][NextEtl]_vars

\* A table of n rows, as transform makes it of n complete records.
TableOf(n) ==
    [i \in 1..n |->
        rowOf(stripTicker(tickers[1]), Entry("CALL", "e1", "s1", i, endColumns), 0, 0)]

\* The sizes of the tables given to load on its own: around the slice size.
LoadSizes == {1, chunksize, chunksize + 1, 2 * chunksize, MaxRows}

\* Rows the destination table holds from an earlier load, of another ticker.
OldRows ==
    <<rowOf(stripTicker(tickers[2]), Entry("PUT", "e1", "s1", 1, endColumns), 0, 0)>>

LoadFates ==
    {Fate(RespScenarioA, FALSE, 1, TRUE)}
        \cup {Fate(RespScenarioA, TRUE, k, a) :
                 k \in 1..((MaxRows + chunksize - 1) \div chunksize), a \in BOOLEAN}

\* Lines 147-156: load awaited on its own with a table of any of the sizes,
\* on a destination that is empty or holds rows already.
InitLoad ==
    /\ mainpc = "direct"
    /\ loop = "run"
    /\ running = 1
    /\ pc = [u \in Tasks |-> IF u = 1 THEN "load" ELSE "none"]
    /\ \E f \in LoadFates : fate = [u \in Tasks |-> f]
    /\ net = [t \in Tasks |-> "idle"]
    /\ cancelReq = [t \in Tasks |-> FALSE]
    /\ requests = [t \in Tasks |-> 0]
    /\ slept = [t \in Tasks |-> <<>>]
    /\ pending = [t \in Tasks |-> None]
    /\ extracted = [t \in Tasks |-> None]
    /\ \E n \in LoadSizes : table = [u \in Tasks |-> IF u = 1 THEN Some(TableOf(n)) ELSE None]
    /\ chunks = [t \in Tasks |-> <<>>]
    /\ err = [t \in Tasks |-> NoExc]
    /\ log = [t \in Tasks |-> <<>>]
    /\ db \in {<<>>, OldRows}
    /\ clock = 0
    /\ epoch = [t \in Tasks |-> 0]
    /\ ticker = tickers

NextLoad ==
    \/ \E t \in Tasks : LoadBegin(t)
    \/ \E t \in Tasks : LoadChunk(t)
    \/ \E t \in Tasks : LoadEnd(t)

SpecLoad == InitLoad /\ [][NextLoad]_vars

\* ------------------------------------------------------------------- claims

Happened(t, event) == \E i \in DOMAIN log[t] : log[t][i] = event

\* Event a occurs in the log of t before its i-th entry.
Before(t, a, i) == \E j \in 1..(i - 1) : log[t][j] = a

\* The ticker's answers are such that extract, transform and load all succeed.
WouldSucceed(t) ==
    /\ fate[t].response \in {RespScenarioA}
    /\ ~fate[t].sinkFails

\* Every row of the ticker's chain is in the destination table.
Persisted(t) ==
    \A ct \in DOMAIN fate[t].response.body :
      \A e \in DOMAIN fate[t].response.body[ct] :
        \A s \in DOMAIN fate[t].response.body[ct][e] :
          \E i \in DOMAIN db :
            /\ db[i].symbol = fate[t].response.body[ct][e][s][1].symbol
            /\ db[i].ticker = stripTicker(tickers[t])

\* C1: when the cycle is over, every ticker whose extract, transform and load
\* would all succeed has its rows in the destination table, whatever happened
\* to the other tickers.
C1_Isolation ==
    loop = "closed" => \A t \in Tasks : WouldSucceed(t) => Persisted(t)

\* C2: at the moment main returns or raises, every ticker task is in a
\* terminal state (done, failed or aborted).
C2_MainEndsAfterAllTasks ==
    mainpc \in {"returned", "raised"} => \A t \in Tasks : pc[t] \in Terminal

\* C3: when extract has returned the absence sentinel for a ticker, neither
\* transform nor load is invoked for it.
C3_SentinelSkipsStages ==
    \A t \in Tasks :
        (Happened(t, "extract.return") /\ extracted[t].none)
            => (~Happened(t, "transform.call") /\ ~Happened(t, "load.call"))

\* The answers that are a rate-limit signal or a transient extraction failure.
NoDataResponses ==
    {RespRateLimited, RespNetworkError, RespNotJson, RespNoPutMap, RespEmptyStrike}

\* C4: the etl run of a ticker whose request is rate-limited or fails
\* transiently does not end with an error.
C4_NoDataIsNotAnError ==
    \A t \in Tasks : fate[t].response \in NoDataResponses => pc[t] # "failed"

\* C5: on a 429 answer extract sends one request, sleeps 5 s once and
\* returns the absence sentinel.
C5_RateLimitCooldown ==
    \A t \in Tasks :
        (fate[t].response = RespRateLimited /\ ~cancelReq[t]) =>
            /\ requests[t] <= 1
            /\ pc[t] = "sleeping" => (slept[t] = <<5000>> /\ pending[t].none)
            /\ Happened(t, "extract.return") =>
                 (extracted[t].none /\ slept[t] = <<5000>> /\ requests[t] = 1)
            /\ ~Happened(t, "extract.raise")

C5_Witness ==
    \E t \in Tasks : fate[t].response = RespRateLimited /\ Happened(t, "extract.return")

\* The answers that are a failure other than a rate limit.
OtherFailures == {RespNetworkError, RespNotJson, RespNoPutMap, RespEmptyStrike}

\* C6: on a failure other than a rate limit extract raises nothing, sleeps
\* 1 s once and returns the absence sentinel.
C6_FailuresCaught ==
    \A t \in Tasks :
        (fate[t].response \in OtherFailures /\ ~cancelReq[t]) =>
            /\ ~Happened(t, "extract.raise")
            /\ pc[t] = "sleeping" => (slept[t] = <<1000>> /\ pending[t].none)
            /\ Happened(t, "extract.return") => (extracted[t].none /\ slept[t] = <<1000>>)

C6_Witness ==
    \E t, u \in Tasks :
        /\ fate[t].response = RespNetworkError /\ Happened(t, "extract.return")
        /\ fate[u].response = RespEmptyStrike /\ Happened(u, "extract.return")

\* C7: within one ticker's run transform is called only after extract has
\* returned, load only after transform has returned, and the run is done only
\* after load has returned.
C7_StagesSequential ==
    \A t \in Tasks :
        /\ \A i \in DOMAIN log[t] :
             /\ log[t][i] = "transform.call" => Before(t, "extract.return", i)
             /\ log[t][i] = "load.call" => Before(t, "transform.return", i)
        /\ pc[t] = "done" => Happened(t, "load.return")

C7_Witness == \E t \in Tasks : pc[t] = "done" /\ Happened(t, "load.return")

\* C8: while one ticker's task sleeps in extract, another ticker's task that
\* is ready can be resumed.
C8_SleepBlocksOnlyIssuer ==
    \A t, u \in Tasks :
        (t # u /\ pc[t] = "sleeping" /\ Ready(u)) => ENABLED Resume(u)

\* C9: while one ticker's load is in progress, another ticker's task that is
\* ready can be resumed.
C9_LoadYields ==
    \A t, u \in Tasks :
        (t # u /\ pc[t] = "writing" /\ Ready(u)) => ENABLED Resume(u)

\* A response with both maps and a contract under every strike.
WellFormed(response) ==
    /\ response.exc = NoExc
    /\ response.status # 429
    /\ response.parses
    /\ DOMAIN response.body = {"callExpDateMap", "putExpDateMap"}
    /\ \A ct \in DOMAIN response.body :
         \A e \in DOMAIN response.body[ct] :
           \A s \in DOMAIN response.body[ct][e] : response.body[ct][e][s] # <<>>

\* The (map, expiration, strike) entries of a body.
Cells(body) ==
    UNION {UNION {{<<ct, e, s>> : s \in DOMAIN body[ct][e]} : e \in DOMAIN body[ct]}
              : ct \in DOMAIN body}

\* C10: for a well-formed response, the sequence extract returns has one
\* element per (expiration, strike) entry of the two maps, and holds the first
\* contract of each entry exactly once.
C10_FlattenComplete ==
    \A t \in Tasks :
        (WellFormed(fate[t].response) /\ Happened(t, "extract.return")) =>
            LET body == fate[t].response.body
                got == extracted[t]
            IN  /\ ~got.none
                /\ Len(got.v) = Cardinality(Cells(body))
                /\ \A c \in Cells(body) :
                     Cardinality({i \in DOMAIN got.v : got.v[i] = body[c[1]][c[2]][c[3]][1]}) = 1

C10_Witness ==
    \E t \in Tasks :
        /\ WellFormed(fate[t].response)
        /\ Happened(t, "extract.return")
        /\ Len(extracted[t].v) >= 4
        /\ \E i, j \in DOMAIN extracted[t].v :
             extracted[t].v[i].putCall = "CALL" /\ extracted[t].v[j].putCall = "PUT"
        /\ \E c \in Cells(fate[t].response.body) :
             Len(fate[t].response.body[c[1]][c[2]][c[3]]) > 1

\* Some record of the extraction lacks a column of endColumns.
LacksColumn(contracts) ==
    /\ ~contracts.none
    /\ \E i \in DOMAIN contracts.v : ~(endColumns \subseteq contracts.v[i].cols)

\* C11: when a record of the batch given to transform lacks a column of
\* endColumns, transform fails with a schema failure, makes no table, and no
\* row of that ticker is loaded.
C11_MissingColumnFailsBatch ==
    \A t \in Tasks :
        (LacksColumn(extracted[t]) /\ Happened(t, "transform.call")
              /\ pc[t] # "transforming") =>
            /\ err[t] = "ColumnNotFoundError"
            /\ table[t].none
            /\ ~Happened(t, "load.call")
            /\ \A i \in DOMAIN db : db[i].ticker # stripTicker(ticker[t])

\* C12: in a table made by one transform call every row's theKey is the
\* stripped ticker, the last 15 characters of the row's symbol, "." and the
\* epoch seconds read at the call, and all rows carry the same theDatetime.
C12_RowKeys ==
    \A t \in Tasks :
        ~table[t].none =>
            \A i \in DOMAIN table[t].v :
                LET row == table[t].v[i]
                    n == Len(row.symbol)
                IN  /\ n > KeySuffixLen
                    /\ row.ticker = stripTicker(ticker[t])
                    /\ row.theKey = row.ticker
                                       \o SubSeq(row.symbol, n - KeySuffixLen + 1, n)
                                       \o <<".">> \o str(epoch[t])
                    /\ epoch[t] * 1000 <= row.theDatetime
                    /\ \A j \in DOMAIN table[t].v :
                         table[t].v[j].theDatetime = row.theDatetime

\* Two rows made while the clock went on to the next second.
C12_Witness ==
    \E t \in Tasks :
        /\ ~table[t].none
        /\ Len(table[t].v) >= 2
        /\ Head(ticker[t]) = "$"
        /\ table[t].v[1].theDatetime >= (epoch[t] + 1) * 1000

ClockReads(t) == Cardinality({i \in DOMAIN log[t] : log[t][i] = "clock.read"})

\* C13: a transform call reads the clock once, and the epoch of theKey and
\* theDatetime are the same instant.
C13_ClockReadOnce ==
    \A t \in Tasks :
        Happened(t, "transform.return") =>
            /\ ClockReads(t) = 1
            /\ \A i \in DOMAIN table[t].v :
                 epochSeconds(table[t].v[i].theDatetime) = epoch[t]

OwnRows ==
    IF running # NoTask /\ pc[running] = "writing"
    THEN Len(table[running].v) - RowsIn(chunks[running])
    ELSE 0

\* C15: no step of load changes or removes a row the destination held before
\* the call, and after a successful load the destination holds every row of
\* the table exactly once.
C15_AppendOnly ==
    /\ [](\A t \in Tasks :
            (pc[t] = "done" /\ ~table[t].none) =>
                /\ Len(db) >= Len(table[t].v)
                /\ \A i \in DOMAIN table[t].v :
                     Cardinality({j \in DOMAIN db : db[j] = table[t].v[i]}) = 1)
    /\ [][\A i \in 1..(Len(db) - OwnRows) : i <= Len(db') /\ db'[i] = db[i]]_vars

\* A table of more than one slice loaded after the rows held before.
C15_Witness ==
    \E t \in Tasks :
        /\ pc[t] = "done"
        /\ ~table[t].none
        /\ Len(table[t].v) > chunksize
        /\ db = OldRows \o table[t].v

\* C16 as stated: when the write of slice k fails, the rows of slices 1..k-1
\* of the call are still in the destination.
C16_PriorBatchesPersist ==
    \A t \in Tasks :
        (pc[t] = "failed" /\ err[t] = "OperationalError") =>
            LET kept == (fate[t].failAt - 1) * chunksize
            IN  /\ Len(db) >= kept
                /\ SubSeq(db, Len(db) - kept + 1, Len(db)) = SubSeq(table[t].v, 1, kept)

\* C16: load writes the table in consecutive slices of at most 100 rows;
\* when the write of slice k fails, the failure leaves load, no later slice is
\* written, and the rows of slices 1..k-1 are still in the destination when
\* its engine is not transactional and are all rolled back when it is; a load
\* that ends normally had no failing slice and wrote every row.
C16_Batches ==
    \A t \in Tasks :
        /\ pc[t] = "writing" =>
             /\ \A c \in DOMAIN chunks[t] :
                  Len(chunks[t][c]) >= 1 /\ Len(chunks[t][c]) <= chunksize
             /\ LET w == Len(table[t].v) - RowsIn(chunks[t])
                IN  /\ w >= 0 /\ w <= Len(db)
                    /\ SubSeq(db, Len(db) - w + 1, Len(db)) = SubSeq(table[t].v, 1, w)
                    /\ (chunks[t] # <<>> =>
                          Head(chunks[t])
                            = SubSeq(table[t].v, w + 1, w + Len(Head(chunks[t]))))
        /\ (pc[t] = "failed" /\ Happened(t, "load.call")) =>
             LET kept == IF fate[t].atomic THEN 0 ELSE (fate[t].failAt - 1) * chunksize
             IN  /\ err[t] = "OperationalError"
                 /\ fate[t].sinkFails
                 /\ Len(table[t].v) > (fate[t].failAt - 1) * chunksize
                 /\ \E old \in {<<>>, OldRows} : db = old \o SubSeq(table[t].v, 1, kept)
        /\ (pc[t] = "done" /\ Happened(t, "load.call")) =>
             /\ fate[t].sinkFails => Len(table[t].v) <= (fate[t].failAt - 1) * chunksize
             /\ \E old \in {<<>>, OldRows} : db = old \o table[t].v

\* The second slice was refused on a transactional table: the first is gone.
C16_Witness ==
    \E t \in Tasks :
        /\ pc[t] = "failed"
        /\ err[t] = "OperationalError"
        /\ fate[t].failAt = 2
        /\ fate[t].atomic
        /\ Len(table[t].v) > chunksize
        /\ \A i \in DOMAIN db : db[i] \notin Range(table[t].v)

\* C17: an extract call sends one request and sleeps at most once; when it
\* returns a sequence, the one sleep is the 250 ms pause, made after the
\* flattening and before the return.
C17_OneRequestOneSleep ==
    \A t \in Tasks :
        /\ requests[t] <= 1
        /\ Len(slept[t]) <= 1
        /\ Happened(t, "extract.call") => requests[t] = 1
        /\ \A i \in DOMAIN log[t] :
             /\ log[t][i] = "sleep" => Before(t, "request", i)
             /\ log[t][i] = "extract.return" => Before(t, "sleep", i)
        /\ (pc[t] = "sleeping" /\ ~pending[t].none) =>
             /\ slept[t] = <<PostPullSleepMs>>
             /\ Len(pending[t].v) = Cardinality(Cells(fate[t].response.body))
             /\ ~Happened(t, "extract.return")
        /\ (Happened(t, "extract.return") /\ ~extracted[t].none) =>
             slept[t] = <<PostPullSleepMs>>

\* One call on the success path and one on the rate-limit path, both over.
C17_Witness ==
    \E t, u \in Tasks :
        /\ Happened(t, "extract.return") /\ ~extracted[t].none
        /\ slept[t] = <<PostPullSleepMs>>
        /\ fate[u].response = RespRateLimited /\ Happened(u, "extract.return")
        /\ Len(slept[u]) = 1 /\ requests[u] = 1

\* C18: extract returns the whole flattened sequence or the absence
\* sentinel: a body that lacks a map or has an empty list under a strike gives
\* the sentinel, whatever was collected before.
C18_AllOrNothing ==
    \A t \in Tasks :
        Happened(t, "extract.return") =>
            IF WellFormed(fate[t].response)
            THEN /\ ~extracted[t].none
                 /\ Len(extracted[t].v) = Cardinality(Cells(fate[t].response.body))
            ELSE extracted[t].none

\* The put map is missing after two calls were collected.
C18_Witness ==
    \E t \in Tasks :
        /\ fate[t].response = RespNoPutMap
        /\ Happened(t, "extract.return")
        /\ extracted[t].none

\* C19: when extract returns an empty sequence, transform raises the schema
\* failure, load is not called and the run ends failed, never done.
C19_EmptyExtractionFails ==
    \A t \in Tasks :
        (Happened(t, "extract.return") /\ extracted[t] = Some(<<>>)) =>
            /\ pc[t] # "done"
            /\ table[t].none
            /\ ~Happened(t, "load.call")
            /\ (Happened(t, "transform.call") /\ pc[t] # "transforming") =>
                 /\ pc[t] = "failed"
                 /\ err[t] = "ColumnNotFoundError"
                 /\ Happened(t, "transform.raise")

C19_Witness ==
    \E t \in Tasks :
        /\ fate[t].response = RespEmptyChain
        /\ extracted[t] = Some(<<>>)
        /\ pc[t] = "failed"
        /\ err[t] = "ColumnNotFoundError"

LoadCalls(t) == Cardinality({i \in DOMAIN log[t] : log[t][i] = "load.call"})

\* C20: in one cycle a ticker gets at most one request and one load call; the
\* table of a run has one row per record of that run's own extraction, with
\* the run's stripped ticker; every row in the destination is a row of the
\* table of a run that called load.
C20_OwnRowsOnly ==
    /\ \A t \in Tasks :
         /\ requests[t] <= 1
         /\ LoadCalls(t) <= 1
         /\ ~table[t].none =>
              /\ ~extracted[t].none
              /\ Len(table[t].v) = Len(extracted[t].v)
              /\ \A i \in DOMAIN table[t].v :
                   /\ table[t].v[i].symbol = extracted[t].v[i].symbol
                   /\ table[t].v[i].ticker = stripTicker(tickers[t])
    /\ \A i \in DOMAIN db :
         \E t \in Tasks :
             /\ Happened(t, "load.call")
             /\ db[i] \in Range(table[t].v)
             /\ db[i].ticker = stripTicker(tickers[t])

\* Two tickers' runs are done and the destination holds the rows of both.
C20_Witness ==
    \E t, u \in Tasks :
        /\ t # u
        /\ pc[t] = "done" /\ pc[u] = "done"
        /\ \E i, j \in DOMAIN db :
             /\ db[i].ticker = stripTicker(tickers[t])
             /\ db[j].ticker = stripTicker(tickers[u])

====
